---- MODULE Spec2Model ----
(***************************************************************************)
(* Model of ffbneat.py: a NEAT-style genome for feed-forward boolean       *)
(* networks.  The state is one Genome (its node list, its connection list  *)
(* and its innovation counter) together with the position of the caller:   *)
(* which mutation was called last, how it ended, and whether control is    *)
(* inside add_connection's retry loop; `printed` is what the last call     *)
(* wrote to standard output.                                               *)
(*                                                                         *)
(* Layers are Python floats (IEEE-754 binary64).  A layer is modelled by   *)
(* its binary expansion: a sequence of bits s where s[1] is the units bit  *)
(* and s[i+1] the bit of weight 2^-i, without trailing zero bits.  The     *)
(* midpoint (a + b) / 2.0 is computed as the machine computes it, with     *)
(* round-half-to-even at 53 significant bits.                              *)
(***************************************************************************)
EXTENDS Integers, Sequences, FiniteSets, TLC

VARIABLES nodes, connections, innovation_counter,
          pc, op, result, printed, budget, input_count, output_count

vars == <<nodes, connections, innovation_counter,
          pc, op, result, printed, budget, input_count, output_count>>

genome_vars == <<nodes, connections, innovation_counter>>

(***************************************************************************)
(* Bounds of the model.                                                    *)
(***************************************************************************)
MaxInputs == 2
MaxOutputs == 2
MaxCalls == 3
DeepCalls == 1

(***************************************************************************)
(* binary64: 53 significant bits, smallest positive value 2^-1074.         *)
(***************************************************************************)
MantissaBits == 53
MaxFractionBits == 1074

Min(a, b) == IF a <= b THEN a ELSE b
Max(a, b) == IF a >= b THEN a ELSE b
Range(s) == {s[i] : i \in 1..Len(s)}

(***************************************************************************)
(* Float layers.                                                           *)
(***************************************************************************)
Zero == <<0>>
One == <<1>>

Bit(s, i) == IF i <= Len(s) THEN s[i] ELSE 0

\* a < b on floats: the first bit in which they differ is 0 in a
LayerLess(a, b) ==
    \E i \in 1..Max(Len(a), Len(b)) :
        /\ Bit(a, i) < Bit(b, i)
        /\ \A j \in 1..(i - 1) : Bit(a, j) = Bit(b, j)

\* drop the trailing zero bits
Strip(s) ==
    LET ones == {i \in 2..Len(s) : s[i] = 1}
    IN  SubSeq(s, 1, IF ones = {} THEN 1 ELSE CHOOSE i \in ones : \A j \in ones : j <= i)

\* the carry out of the bits after index i in a + b
Carry(a, b, i) ==
    IF \E j \in (i + 1)..Max(Len(a), Len(b)) :
           /\ Bit(a, j) = 1 /\ Bit(b, j) = 1
           /\ \A k \in (i + 1)..(j - 1) : Bit(a, k) # Bit(b, k)
    THEN 1 ELSE 0

\* The exact value of (a + b) / 2: the sum's bits, read one place to the right.
HalfSum(a, b) ==
    Strip([i \in 1..(Max(Len(a), Len(b)) + 1) |->
              IF i = 1 THEN Carry(a, b, 0)
              ELSE (Bit(a, i - 1) + Bit(b, i - 1) + Carry(a, b, i - 1)) % 2])

\* s + one unit in its last place
Increment(s) ==
    LET zeros == {i \in 1..Len(s) : s[i] = 0}
        p == IF zeros = {} THEN 0 ELSE CHOOSE i \in zeros : \A j \in zeros : j <= i
    IN  [i \in 1..Len(s) |-> IF i < p THEN s[i] ELSE IF i = p THEN 1 ELSE 0]

Lead(s) == IF \E i \in 1..Len(s) : s[i] = 1
           THEN CHOOSE i \in 1..Len(s) : s[i] = 1 /\ \A j \in 1..(i - 1) : s[j] = 0
           ELSE 1

\* Round to nearest, ties to even, keeping MantissaBits significant bits and no
\* bit beyond index `last`.
RoundFloat(s, last) ==
    LET keep == Min(Lead(s) + MantissaBits - 1, last)
    IN  IF Len(s) <= keep THEN s
        ELSE LET head == SubSeq(s, 1, keep)
                 guard == s[keep + 1]
                 sticky == \E i \in (keep + 2)..Len(s) : s[i] = 1
                 up == guard = 1 /\ (sticky \/ head[keep] = 1)
             IN  Strip(IF up THEN Increment(head) ELSE head)

\* (a + b) / 2.0 : the sum is rounded, then the quotient.
Midpoint(a, b) ==
    RoundFloat(RoundFloat(HalfSum(a, b), MaxFractionBits + 2), MaxFractionBits + 1)

(***************************************************************************)
(* Node, Connection.                                                       *)
(***************************************************************************)
GateTypes == {"AND", "OR", "NAND", "NOR"}
NodeType == GateTypes \cup {"INPUT", "OUTPUT"}

\* Node.__init__; the random gate type of a node built without one is the
\* caller's choice `node_type`.
Node(innovation, layer, node_type) ==
    [innovation |-> innovation,
     node_type |-> node_type,
     layer |-> IF node_type = "OUTPUT" THEN One
               ELSE IF node_type = "INPUT" THEN Zero
               ELSE layer]

Connection(input, output, innovation) ==
    [input |-> input, output |-> output, enabled |-> TRUE, innovation |-> innovation]

Genome(ns, cs, ctr) == [nodes |-> ns, connections |-> cs, innovation_counter |-> ctr]

\* [n for n in self.nodes if n.get_innovation() == id][0]
NodeById(ns, id) ==
    ns[CHOOSE i \in 1..Len(ns) :
          ns[i].innovation = id /\ \A j \in 1..(i - 1) : ns[j].innovation # id]

(***************************************************************************)
(* Genome.__init__                                                         *)
(***************************************************************************)
\* random.shuffle: every ordering of the list
Shuffles(S) ==
    {s \in [1..Cardinality(S) -> S] : \A i, j \in 1..Cardinality(S) : i # j => s[i] # s[j]}

InitialNodes(I, O) ==
    [i \in 1..(I + O) |-> IF i <= I THEN Node(i - 1, Zero, "INPUT")
                          ELSE Node(i - 1, Zero, "OUTPUT")]

\* the pop loop without outputs.pop(): every input is joined to the same output
InitialConnection_no_pop(inputs, outputs, k, ctr) ==
    Connection(inputs[Len(inputs) - k + 1], outputs[Len(outputs)], ctr)

\* the k-th pass of the pop loop joins the last input and the last output left
InitialConnection(inputs, outputs, k, ctr) ==
    Connection(inputs[Len(inputs) - k + 1], outputs[Len(outputs) - k + 1], ctr)

GenomeInit(I, O, inputs, outputs) ==
    LET m == Min(I, O)
    IN  Genome(InitialNodes(I, O),
               [k \in 1..m |-> InitialConnection(inputs, outputs, k, I + O + k - 1)],
               I + O + m)

InputIds(ns) == {n.innovation : n \in {x \in Range(ns) : x.node_type = "INPUT"}}
OutputIds(ns) == {n.innovation : n \in {x \in Range(ns) : x.node_type = "OUTPUT"}}

(***************************************************************************)
(* Genome.add_connection                                                   *)
(***************************************************************************)
\* line 108 without the filter: OUTPUT nodes can be sampled too
valid_nodes_all(ns) == 1..Len(ns)

valid_nodes(ns) == {i \in 1..Len(ns) : ns[i].node_type # "OUTPUT"}

\* new_conn without the comparison of layers: always node_a -> node_b
new_conn_unordered(node_a, node_b, ctr) ==
    IF node_a.layer # node_b.layer
    THEN <<Connection(node_a.innovation, node_b.innovation, ctr)>>
    ELSE <<>>

\* new_conn oriented from the higher layer to the lower one
new_conn_downward(node_a, node_b, ctr) ==
    IF LayerLess(node_b.layer, node_a.layer)
    THEN <<Connection(node_a.innovation, node_b.innovation, ctr)>>
    ELSE IF LayerLess(node_a.layer, node_b.layer)
    THEN <<Connection(node_b.innovation, node_a.innovation, ctr)>>
    ELSE <<>>

\* new_conn giving the connection the innovation after the current one
new_conn_skipping_innovation(node_a, node_b, ctr) ==
    IF LayerLess(node_b.layer, node_a.layer)
    THEN <<Connection(node_b.innovation, node_a.innovation, ctr + 1)>>
    ELSE IF LayerLess(node_a.layer, node_b.layer)
    THEN <<Connection(node_a.innovation, node_b.innovation, ctr + 1)>>
    ELSE <<>>

\* lines 115-120: the candidate for a sampled pair, <<>> when the layers are equal
new_conn(node_a, node_b, ctr) ==
    IF LayerLess(node_b.layer, node_a.layer)
    THEN <<Connection(node_b.innovation, node_a.innovation, ctr)>>
    ELSE IF LayerLess(node_a.layer, node_b.layer)
    THEN <<Connection(node_a.innovation, node_b.innovation, ctr)>>
    ELSE <<>>

\* the search for an equal connection that skips the disabled ones
already_exists_enabled(cs, c) ==
    \E i \in 1..Len(cs) : cs[i].enabled /\ cs[i].input = c.input /\ cs[i].output = c.output

\* lines 124-128
already_exists(cs, c) ==
    \E i \in 1..Len(cs) : cs[i].input = c.input /\ cs[i].output = c.output

(***************************************************************************)
(* Genome.add_node                                                         *)
(***************************************************************************)
enabled_connections(cs) == {i \in 1..Len(cs) : cs[i].enabled}

new_layer(in_layer, out_layer) == Midpoint(in_layer, out_layer)

\* splice without the increment of line 152: the node's innovation is issued
\* again to the first of the two connections
splice_reusing_innovation(g, ci, node_type) ==
    LET conn == g.connections[ci]
        ctr == g.innovation_counter
        layer == new_layer(NodeById(g.nodes, conn.input).layer,
                           NodeById(g.nodes, conn.output).layer)
    IN  Genome(Append(g.nodes, Node(ctr, layer, node_type)),
               [g.connections EXCEPT ![ci].enabled = FALSE]
                   \o <<Connection(conn.input, ctr, ctr),
                        Connection(ctr, conn.output, ctr + 1)>>,
               ctr + 2)

\* lines 142-158 with the chosen connection taken out of the list instead of
\* being disabled
splice_dropping_connection(g, ci, node_type) ==
    LET conn == g.connections[ci]
        ctr == g.innovation_counter
        layer == new_layer(NodeById(g.nodes, conn.input).layer,
                           NodeById(g.nodes, conn.output).layer)
    IN  Genome(Append(g.nodes, Node(ctr, layer, node_type)),
               SubSeq(g.connections, 1, ci - 1)
                   \o SubSeq(g.connections, ci + 1, Len(g.connections))
                   \o <<Connection(conn.input, ctr, ctr + 1),
                        Connection(ctr, conn.output, ctr + 2)>>,
               ctr + 3)

\* lines 142-158 with the connection from the new node to conn.output created
\* disabled
splice_output_disabled(g, ci, node_type) ==
    LET conn == g.connections[ci]
        ctr == g.innovation_counter
        layer == new_layer(NodeById(g.nodes, conn.input).layer,
                           NodeById(g.nodes, conn.output).layer)
    IN  Genome(Append(g.nodes, Node(ctr, layer, node_type)),
               [g.connections EXCEPT ![ci].enabled = FALSE]
                   \o <<Connection(conn.input, ctr, ctr + 1),
                        [Connection(ctr, conn.output, ctr + 2) EXCEPT !.enabled = FALSE]>>,
               ctr + 3)

\* lines 142-158: disable the connection, append the node and the two
\* connections that replace the old one
splice(g, ci, node_type) ==
    LET conn == g.connections[ci]
        ctr == g.innovation_counter
        layer == new_layer(NodeById(g.nodes, conn.input).layer,
                           NodeById(g.nodes, conn.output).layer)
    IN  Genome(Append(g.nodes, Node(ctr, layer, node_type)),
               [g.connections EXCEPT ![ci].enabled = FALSE]
                   \o <<Connection(conn.input, ctr, ctr + 1),
                        Connection(ctr, conn.output, ctr + 2)>>,
               ctr + 3)

\* the filter of line 161 without `n.innovation != conn.input`
lower_nodes_any(ns, layer, conn) ==
    {i \in 1..Len(ns) : LayerLess(ns[i].layer, layer)}

\* line 161: the nodes random.choice draws lower_node from
lower_nodes(ns, layer, conn) ==
    {i \in 1..Len(ns) : LayerLess(ns[i].layer, layer) /\ ns[i].innovation # conn.input}

\* lines 163-164
third_input(g, lower_node, new_node) ==
    Genome(g.nodes,
           Append(g.connections,
                  Connection(lower_node.innovation, new_node.innovation, g.innovation_counter)),
           g.innovation_counter + 1)

(***************************************************************************)
(* get_input_nodes, build_expression, evaluate.  An expression is the       *)
(* string the code builds; a call that raises gives the exception's name.   *)
(***************************************************************************)
IsError(r) == r \in {"AssertionError", "RecursionError"}

\* the enabled connections that end at this node (lines 189 and 201)
nodes_out(g, node) ==
    {i \in 1..Len(g.connections) :
        g.connections[i].output = node.innovation /\ g.connections[i].enabled}

\* lines 191-193: the nodes, in the order of genome.nodes, that such a
\* connection starts at
get_input_nodes(g, node) ==
    LET node_ids == {g.connections[i].input : i \in nodes_out(g, node)}
    IN  SelectSeq(g.nodes, LAMBDA n : n.innovation \in node_ids)

\* the string each gate type joins its inputs with (lines 208, 211, 214, 217)
joiner(node_type) ==
    CASE node_type = "AND" -> " AND  "
      [] node_type = "OR" -> " OR "
      [] node_type = "NAND" -> " NAND "
      [] node_type = "NOR" -> " NOR "

\* sep.join(parts)
RECURSIVE join(_, _)
join(parts, sep) ==
    IF Len(parts) = 0 THEN ""
    ELSE IF Len(parts) = 1 THEN parts[1]
    ELSE parts[1] \o sep \o join(Tail(parts), sep)

\* the list comprehension of lines 208-217: the first call that raises ends it
joined(parts, sep) ==
    LET errors == {i \in 1..Len(parts) : IsError(parts[i])}
    IN  IF errors = {} THEN "(" \o join(parts, sep) \o ")"
        ELSE parts[CHOOSE i \in errors : \A j \in errors : i <= j]

\* build_expression with `depth` nested calls left before the interpreter
\* raises RecursionError
RECURSIVE build(_, _, _)
build(g, node, depth) ==
    IF depth = 0 THEN "RecursionError"
    ELSE IF node.node_type = "OUTPUT"
    THEN IF Cardinality(nodes_out(g, node)) # 1 THEN "AssertionError"
         ELSE LET node_innov == g.connections[CHOOSE i \in nodes_out(g, node) : TRUE].input
                  inner == build(g, NodeById(g.nodes, node_innov), depth - 1)
              IN  IF IsError(inner) THEN inner
                  ELSE "out_" \o ToString(node.innovation) \o " = " \o inner
    ELSE IF node.node_type = "INPUT"
    THEN "in_" \o ToString(node.innovation)
    ELSE IF Cardinality(nodes_out(g, node)) < 2 THEN "AssertionError"
    ELSE LET ins == get_input_nodes(g, node)
         IN  joined([i \in 1..Len(ins) |-> build(g, ins[i], depth - 1)],
                    joiner(node.node_type))

\* A chain of calls longer than the number of nodes visits a node twice and
\* so never ends by itself.
build_expression(g, node) == build(g, node, Len(g.nodes))

\* evaluate: print the expression of each OUTPUT node, in the order of
\* genome.nodes, until a call raises
evaluated(g) ==
    LET outs == SelectSeq(g.nodes, LAMBDA n : n.node_type = "OUTPUT")
        exprs == [i \in 1..Len(outs) |-> build_expression(g, outs[i])]
        errors == {i \in 1..Len(exprs) : IsError(exprs[i])}
        first == CHOOSE i \in errors : \A j \in errors : i <= j
    IN  IF errors = {} THEN [printed |-> exprs, result |-> "ok"]
        ELSE [printed |-> SubSeq(exprs, 1, first - 1), result |-> exprs[first]]

(***************************************************************************)
(* State machine.                                                          *)
(***************************************************************************)
Current == Genome(nodes, connections, innovation_counter)

Install(g) ==
    /\ nodes' = g.nodes
    /\ connections' = g.connections
    /\ innovation_counter' = g.innovation_counter

InLoop == pc \in {"sample", "same_layer", "duplicate"}

Init ==
    \E I \in 0..MaxInputs, O \in 0..MaxOutputs :
      \E inputs \in Shuffles(0..(I - 1)), outputs \in Shuffles(I..(I + O - 1)) :
        LET g == GenomeInit(I, O, inputs, outputs)
        IN  /\ nodes = g.nodes
            /\ connections = g.connections
            /\ innovation_counter = g.innovation_counter
            /\ pc = "idle"
            /\ op = "Genome"
            /\ result = "ok"
            /\ printed = <<>>
            /\ budget = MaxCalls
            /\ input_count = I
            /\ output_count = O

\* add_node with the new node created before the connection is chosen
add_node_node_first ==
    /\ pc = "idle"
    /\ budget > 0
    /\ budget' = budget - 1
    /\ op' = "add_node"
    /\ printed' = <<>>
    /\ UNCHANGED <<pc, input_count, output_count>>
    /\ IF enabled_connections(connections) = {}
       THEN /\ result' = "IndexError"
            /\ Install(Genome(Append(nodes, Node(innovation_counter, Zero, "AND")),
                              connections, innovation_counter + 1))
       ELSE \E ci \in enabled_connections(connections), node_type \in GateTypes :
              LET g == splice(Current, ci, node_type)
                  new_node == g.nodes[Len(g.nodes)]
                  lower == lower_nodes(g.nodes, new_node.layer, connections[ci])
              IN  IF lower = {}
                  THEN /\ result' = "IndexError"
                       /\ Install(g)
                  ELSE \E i \in lower :
                         /\ result' = "ok"
                         /\ Install(third_input(g, g.nodes[i], new_node))

add_node ==
    /\ pc = "idle"
    /\ budget > 0
    /\ budget' = budget - 1
    /\ op' = "add_node"
    /\ printed' = <<>>
    /\ UNCHANGED <<pc, input_count, output_count>>
    /\ IF enabled_connections(connections) = {}
       THEN /\ result' = "IndexError"
            /\ UNCHANGED genome_vars
       ELSE \E ci \in enabled_connections(connections), node_type \in GateTypes :
              LET g == splice(Current, ci, node_type)
                  new_node == g.nodes[Len(g.nodes)]
                  lower == lower_nodes(g.nodes, new_node.layer, connections[ci])
              IN  IF lower = {}
                  THEN /\ result' = "IndexError"
                       /\ Install(g)
                  ELSE \E i \in lower :
                         /\ result' = "ok"
                         /\ Install(third_input(g, g.nodes[i], new_node))

add_connection_enter ==
    /\ pc = "idle"
    /\ budget > 0
    /\ budget' = budget - 1
    /\ op' = "add_connection"
    /\ printed' = <<>>
    /\ UNCHANGED <<genome_vars, input_count, output_count>>
    /\ IF Cardinality(valid_nodes(nodes)) < 2
       THEN /\ result' = "ValueError"
            /\ pc' = "idle"
       ELSE /\ result' = "running"
            /\ pc' = "sample"

add_connection_draw ==
    /\ InLoop
    /\ UNCHANGED <<nodes, op, printed, budget, input_count, output_count>>
    /\ \E a, b \in valid_nodes(nodes) :
         /\ a # b
         /\ LET cand == new_conn(nodes[a], nodes[b], innovation_counter)
            IN  IF cand = <<>>
                THEN /\ pc' = "same_layer"
                     /\ UNCHANGED <<connections, innovation_counter, result>>
                ELSE IF already_exists(connections, cand[1])
                THEN /\ pc' = "duplicate"
                     /\ UNCHANGED <<connections, innovation_counter, result>>
                ELSE /\ pc' = "idle"
                     /\ result' = "ok"
                     /\ connections' = Append(connections, cand[1])
                     /\ innovation_counter' = innovation_counter + 1

evaluate ==
    /\ pc = "idle"
    /\ op' = "evaluate"
    /\ printed' = evaluated(Current).printed
    /\ result' = evaluated(Current).result
    /\ UNCHANGED <<genome_vars, pc, budget, input_count, output_count>>

\* the operations that change the genome
Mutate == add_node \/ add_connection_enter \/ add_connection_draw

Next == Mutate \/ evaluate

Spec == Init /\ [][Next]_vars

(***************************************************************************)
(* A long run of the driver: Genome(2, 1), then MantissaBits calls of      *)
(* add_node in each of which random.choice picks the connection into the   *)
(* OUTPUT node, the gate type NAND and the first node of the lower ones.   *)
(***************************************************************************)
splice_at_output(g) ==
    LET ci == CHOOSE i \in enabled_connections(g.connections) :
                  g.connections[i].output \in OutputIds(g.nodes)
        h == splice(g, ci, "NAND")
        new_node == h.nodes[Len(h.nodes)]
        lower == lower_nodes(h.nodes, new_node.layer, g.connections[ci])
    IN  third_input(h, h.nodes[CHOOSE i \in lower : \A j \in lower : i <= j], new_node)

\* k more such calls from genome g (each call advances the counter, so the
\* comparison only makes h the value that is carried on)
RECURSIVE splices(_, _)
splices(g, k) ==
    IF k = 0 THEN g
    ELSE LET h == splice_at_output(g)
         IN  IF h.innovation_counter > g.innovation_counter THEN splices(h, k - 1) ELSE h

after_splices(k) == splices(GenomeInit(2, 1, <<0, 1>>, <<2>>), k)

InitDeep ==
    LET g == after_splices(MantissaBits)
    IN  /\ nodes = g.nodes
        /\ connections = g.connections
        /\ innovation_counter = g.innovation_counter
        /\ pc = "idle"
        /\ op = "add_node"
        /\ result = "ok"
        /\ printed = <<>>
        /\ budget = DeepCalls
        /\ input_count = 2
        /\ output_count = 1

\* the mutating operations from the deep genome on
SpecDeep == InitDeep /\ [][Mutate]_vars

(***************************************************************************)
(* Properties.                                                             *)
(***************************************************************************)
Layer(id) == NodeById(nodes, id).layer

Gates == {i \in 1..Len(nodes) : nodes[i].node_type \in GateTypes}
Inputs == {i \in 1..Len(nodes) : nodes[i].node_type = "INPUT"}
Outputs == {i \in 1..Len(nodes) : nodes[i].node_type = "OUTPUT"}

EnabledEdges == {<<connections[i].input, connections[i].output>> :
                    i \in enabled_connections(connections)}

\* enabled connections into / all connections out of the node with this id
InDegree(id) == Cardinality({i \in enabled_connections(connections) : connections[i].output = id})
OutDegree(id) == Cardinality({i \in 1..Len(connections) : connections[i].input = id})

RECURSIVE Paths(_, _)
Paths(R, k) ==
    IF k = 0 THEN R
    ELSE Paths(R \cup {<<x[1][1], x[2][2]>> : x \in {y \in R \X R : y[1][2] = y[2][1]}}, k - 1)

\* C2: every connection, enabled or not, goes from a strictly lower layer to a
\* strictly higher one.
FeedForward ==
    \A i \in 1..Len(connections) :
        LayerLess(Layer(connections[i].input), Layer(connections[i].output))

\* C1: the enabled connections form no cycle: no node has a non-empty path of
\* enabled connections back to itself.
Acyclic == \A p \in Paths(EnabledEdges, Len(nodes)) : p[1] # p[2]

\* add_connection has joined two nodes of a genome that has a gate, and some
\* node is reached from an INPUT through more than one enabled connection
AcyclicWitness ==
    /\ op = "add_connection" /\ result = "ok" /\ Gates # {}
    /\ \E p \in Paths(EnabledEdges, Len(nodes)) : p \notin EnabledEdges

\* C3: every OUTPUT node has exactly one enabled incoming connection and no
\* outgoing connection, in every state after construction.
OutputDegrees ==
    \A i \in Outputs : InDegree(nodes[i].innovation) = 1 /\ OutDegree(nodes[i].innovation) = 0

\* C4: once a call of add_node or add_connection has returned, whether it
\* succeeded or raised, every gate has at least two enabled incoming connections.
GateInputs ==
    pc = "idle" => \A i \in Gates : InDegree(nodes[i].innovation) >= 2

\* a step of add_node
AddNodeStep == pc = "idle" /\ op' = "add_node" /\ budget' = budget - 1

\* C5: add_node is atomic: a call that fails leaves nodes, connections, enabled
\* flags and the innovation counter as they were; a call that does not fail has
\* disabled one connection and appended one node and three connections.
AddNodeAtomic ==
    [][AddNodeStep =>
         \/ /\ result' = "ok"
            /\ Len(nodes') = Len(nodes) + 1
            /\ Len(connections') = Len(connections) + 3
            /\ Cardinality(enabled_connections(connections')) =
                   Cardinality(enabled_connections(connections)) + 2
         \/ /\ result' # "ok"
            /\ UNCHANGED genome_vars]_vars

\* C6: no two connections, enabled or disabled, have the same (from, to) pair.
NoDuplicateConnections ==
    \A i, j \in 1..Len(connections) :
        i # j => \/ connections[i].input # connections[j].input
                 \/ connections[i].output # connections[j].output

\* add_connection has redrawn after a duplicate, or has returned, in a genome
\* that holds a disabled connection between two nodes it samples from
NoDuplicateWitness ==
    /\ op = "add_connection"
    /\ pc = "duplicate" \/ result = "ok"
    /\ \E i \in 1..Len(connections) :
          /\ ~connections[i].enabled
          /\ connections[i].output \notin OutputIds(nodes)

AllIds == {nodes[i].innovation : i \in 1..Len(nodes)}
              \cup {connections[i].innovation : i \in 1..Len(connections)}

IdsDistinct ==
    /\ Cardinality(AllIds) = Len(nodes) + Len(connections)
    /\ AllIds \subseteq 0..(innovation_counter - 1)
    /\ AllIds # {} => 0 \in AllIds

\* the ids of what a step appends, in the order in which the code issues them
NewIds ==
    [i \in 1..(Len(nodes') - Len(nodes)) |-> nodes'[Len(nodes) + i].innovation]
        \o [i \in 1..(Len(connections') - Len(connections)) |->
                connections'[Len(connections) + i].innovation]

IdsIncrease ==
    /\ \A i \in 1..Len(NewIds) : \A old \in AllIds : NewIds[i] > old
    /\ \A i, j \in 1..Len(NewIds) : i < j => NewIds[i] < NewIds[j]

\* C7: innovation ids are pairwise distinct over nodes and connections
\* together, start at 0, and whatever a step appends gets an id greater than
\* every id issued before it.
InnovationIds == []IdsDistinct /\ [][IdsIncrease]_vars

\* an add_node that failed after appending the node and two connections
InnovationIdsWitness ==
    /\ op = "add_node" /\ result = "IndexError"
    /\ \E i \in Gates : nodes[i].innovation = innovation_counter - 3

\* C8: Genome(I, O) has I INPUT nodes with ids 0..I-1, then O OUTPUT nodes with
\* ids I..I+O-1, and min(I, O) connections, all enabled, each from an INPUT to
\* an OUTPUT, no node being an endpoint of two of them.
Construction ==
    op = "Genome" =>
        /\ Len(nodes) = input_count + output_count
        /\ \A i \in 1..Len(nodes) :
              /\ nodes[i].innovation = i - 1
              /\ nodes[i].node_type = IF i <= input_count THEN "INPUT" ELSE "OUTPUT"
        /\ Len(connections) = Min(input_count, output_count)
        /\ \A i \in 1..Len(connections) :
              /\ connections[i].enabled
              /\ connections[i].input \in 0..(input_count - 1)
              /\ connections[i].output \in input_count..(input_count + output_count - 1)
        /\ \A i, j \in 1..Len(connections) :
              i # j => /\ connections[i].input # connections[j].input
                       /\ connections[i].output # connections[j].output

\* Genome(2, 2): two connections
ConstructionWitness ==
    /\ op = "Genome" /\ input_count = 2 /\ output_count = 2
    /\ Len(nodes) = 4 /\ Len(connections) = 2

\* what a successful add_node on connection number ci has done
Spliced(ci) ==
    LET c == connections[ci]
        n == nodes'[Len(nodes')]
        k == Len(connections)
    IN  /\ nodes' = Append(nodes, n)
        /\ n.node_type \in GateTypes
        /\ n.layer = Midpoint(Layer(c.input), Layer(c.output))
        /\ Len(connections') = k + 3
        /\ \A j \in 1..k :
              connections'[j] = IF j = ci THEN [c EXCEPT !.enabled = FALSE]
                                ELSE connections[j]
        /\ \A j \in (k + 1)..(k + 3) : connections'[j].enabled
        /\ connections'[k + 1].input = c.input /\ connections'[k + 1].output = n.innovation
        /\ connections'[k + 2].input = n.innovation /\ connections'[k + 2].output = c.output
        /\ connections'[k + 3].output = n.innovation
        /\ \E x \in 1..Len(nodes) :
              /\ connections'[k + 3].input = nodes[x].innovation
              /\ LayerLess(nodes[x].layer, n.layer)
              /\ nodes[x].innovation # c.input

AddNodeScenario ==
    (/\ op = "add_node" /\ result = "ok" /\ budget = MaxCalls - 1
     /\ input_count = 2 /\ output_count = 2)
        => /\ Len(nodes) = 5
           /\ Len(connections) = 5
           /\ Cardinality(enabled_connections(connections)) = 4

\* C9: a successful add_node disables the chosen connection c, appends one gate
\* at the midpoint of c's layers and three enabled connections c.from -> n,
\* n -> c.to and x -> n, with x an older node strictly below n and not c.from;
\* Genome(2, 2) then one add_node has 5 nodes, 5 connections, 4 of them enabled.
AddNodeEffect ==
    /\ []AddNodeScenario
    /\ [][(AddNodeStep /\ result' = "ok") =>
            \E ci \in enabled_connections(connections) : Spliced(ci)]_vars

AddNodeEffectWitness ==
    /\ op = "add_node" /\ result = "ok" /\ budget = MaxCalls - 1
    /\ input_count = 2 /\ output_count = 2
    /\ Len(nodes) = 5 /\ Cardinality(enabled_connections(connections)) = 4

\* C10: every call of add_connection returns: from each state inside the retry
\* loop some draw ends the call.
AddConnectionCanReturn ==
    InLoop => ENABLED (add_connection_draw /\ pc' = "idle")

Grows ==
    /\ Len(nodes') >= Len(nodes)
    /\ SubSeq(nodes', 1, Len(nodes)) = nodes
    /\ Len(connections') >= Len(connections)
    /\ \A i \in 1..Len(connections) :
          /\ connections'[i].innovation = connections[i].innovation
          /\ connections'[i].input = connections[i].input
          /\ connections'[i].output = connections[i].output
          /\ connections'[i].enabled => connections[i].enabled

\* C11: no step removes or reorders a node or a connection or changes a node's
\* id, kind, layer or a connection's id, from, to; only `enabled` changes, and
\* only from true to false.
MonotonicGrowth == [][Grows]_vars

MonotonicGrowthWitness ==
    /\ Len(nodes) > input_count + output_count
    /\ \E i \in 1..Len(connections) : ~connections[i].enabled
    /\ \E i \in 1..Len(connections) :
          connections[i].enabled /\ connections[i].innovation > innovation_counter - 2

\* the ids of the nodes an enabled connection into n starts at
Sources(n) ==
    {connections[i].input : i \in {j \in 1..Len(connections) :
        connections[j].output = n.innovation /\ connections[j].enabled}}

\* the expressions of the sources of n, in the order of `nodes`
Children(n) ==
    LET srcs == SelectSeq(nodes, LAMBDA s : s.innovation \in Sources(n))
    IN  [i \in 1..Len(srcs) |-> build_expression(Current, srcs[i])]

\* Input(id) written in_id, NamedOutput(id, e) written out_id = e and
\* Gate(kind, children) written (child kind child ...)
Rendered(n) ==
    IF n.node_type = "INPUT" THEN "in_" \o ToString(n.innovation)
    ELSE IF n.node_type = "OUTPUT"
    THEN "out_" \o ToString(n.innovation) \o " = " \o Children(n)[1]
    ELSE "(" \o join(Children(n), " " \o n.node_type \o " ") \o ")"

OneAndGate ==
    /\ pc = "idle" /\ input_count = 2 /\ output_count = 1
    /\ Len(nodes) = 4 /\ nodes[4].node_type = "AND"
    /\ Sources(nodes[4]) = {0, 1} /\ Sources(nodes[3]) = {4}

\* C12: build_expression mirrors the enabled connectivity: in_id for an INPUT
\* node, out_id = e for an OUTPUT node with one enabled incoming connection,
\* (c1 KIND c2 ...) for a gate with one child per enabled incoming connection;
\* one AND gate fed by in_0 and in_1 and feeding out_2 gives
\* out_2 = (in_0 AND in_1).
ExpressionMirrors ==
    /\ pc = "idle" =>
          \A i \in 1..Len(nodes) :
             ~IsError(build_expression(Current, nodes[i]))
                => build_expression(Current, nodes[i]) = Rendered(nodes[i])
    /\ OneAndGate => build_expression(Current, nodes[3]) = "out_2 = (in_0 AND in_1)"

\* C13: an OUTPUT node without exactly one enabled incoming connection, or a
\* gate with fewer than two, makes build_expression return MalformedGenome as
\* its value.
MalformedIsReturned ==
    pc = "idle" =>
       \A i \in 1..Len(nodes) :
          (\/ nodes[i].node_type = "OUTPUT" /\ Cardinality(Sources(nodes[i])) # 1
           \/ nodes[i].node_type \in GateTypes /\ Cardinality(Sources(nodes[i])) < 2)
             => build_expression(Current, nodes[i]) = "MalformedGenome"

NoEnabledConnection ==
    [][(AddNodeStep /\ \A i \in 1..Len(connections) : ~connections[i].enabled)
          => (result' = "IndexError" /\ UNCHANGED genome_vars)]_vars

NoEnabledConnectionWitness ==
    /\ op = "add_node" /\ result = "IndexError"
    /\ connections = <<>>
    /\ Len(nodes) = input_count + output_count /\ Len(nodes) > 0
    /\ innovation_counter = Len(nodes)

\* C16: no enabled connection ends at an INPUT node.
InputsHaveNoInputs ==
    \A i \in Inputs : InDegree(nodes[i].innovation) = 0

\* add_connection has returned a connection that starts at an INPUT node and
\* ends at a gate
InputsHaveNoInputsWitness ==
    /\ op = "add_connection" /\ result = "ok" /\ pc = "idle"
    /\ LET c == connections[Len(connections)]
       IN  /\ NodeById(nodes, c.input).node_type = "INPUT"
           /\ NodeById(nodes, c.output).node_type \in GateTypes

AddConnectionReturns == InLoop /\ pc' = "idle"

\* C17: a successful add_connection appends exactly one connection: enabled,
\* with the counter's value before the call as id, between two different
\* existing nodes, from the one of strictly smaller layer; nodes and the older
\* connections stay as they were and the counter goes up by one, however many
\* pairs were drawn before.
AddConnectionEffect ==
    /\ [][(InLoop /\ ~AddConnectionReturns) => UNCHANGED genome_vars]_vars
    /\ [][AddConnectionReturns =>
            /\ result' = "ok"
            /\ nodes' = nodes
            /\ Len(connections') = Len(connections) + 1
            /\ SubSeq(connections', 1, Len(connections)) = connections
            /\ innovation_counter' = innovation_counter + 1
            /\ LET c == connections'[Len(connections')]
               IN  /\ c.enabled
                   /\ c.innovation = innovation_counter
                   /\ c.input # c.output
                   /\ \E a, b \in 1..Len(nodes) :
                         /\ nodes[a].innovation = c.input
                         /\ nodes[b].innovation = c.output
                         /\ LayerLess(nodes[a].layer, nodes[b].layer)]_vars

\* the call returned on a genome with two gates, where most pairs are redrawn
AddConnectionEffectWitness ==
    /\ op = "add_connection" /\ result = "ok" /\ pc = "idle"
    /\ Cardinality(Gates) = 2
    /\ connections[Len(connections)].enabled
    /\ connections[Len(connections)].innovation = innovation_counter - 1

FirstCall == pc = "idle" /\ budget = MaxCalls

\* C18: with at least two INPUT nodes every enabled connection c has a node x
\* with layer(x) < midpoint of c's layers and x # c.from, so add_node never
\* fails for lack of a lower node; with one INPUT node the first add_node after
\* construction always fails that way, after the splice (line 161).
LowerNodeExists ==
    /\ [](input_count >= 2 =>
            \A ci \in enabled_connections(connections) :
               \E x \in 1..Len(nodes) :
                  /\ LayerLess(nodes[x].layer,
                               Midpoint(Layer(connections[ci].input),
                                        Layer(connections[ci].output)))
                  /\ nodes[x].innovation # connections[ci].input)
    /\ [][(AddNodeStep /\ input_count >= 2 /\ enabled_connections(connections) # {})
             => result' = "ok"]_vars
    /\ [][(AddNodeStep /\ FirstCall /\ input_count = 1)
             => (result' = "IndexError" /\ Len(nodes') = Len(nodes) + 1)]_vars

InDegreeIn(cs, id) ==
    Cardinality({i \in enabled_connections(cs) : cs[i].output = id})

\* an OUTPUT node that construction left without a connection
Unmatched(i) ==
    \A j \in 1..Min(input_count, output_count) :
        connections[j].output # nodes[i].innovation

NoDeadGates ==
    \A g \in Gates :
        /\ \E i \in enabled_connections(connections) :
              connections[i].input = nodes[g].innovation
        /\ \E o \in Outputs :
              <<nodes[g].innovation, nodes[o].innovation>>
                  \in Paths(EnabledEdges, Len(nodes))

\* add_node failed after its splice, on a genome where an earlier splice
\* disabled a gate's connection to the OUTPUT node
NoDeadGatesWitness ==
    /\ op = "add_node" /\ result = "IndexError"
    /\ \E g \in Gates, i \in 1..Len(connections) :
          /\ connections[i].input = nodes[g].innovation
          /\ ~connections[i].enabled

====
